---- MODULE Spec2Model ----
(***************************************************************************)
(* Model of src/12.py, the Sales-smart dashboard script: the loader        *)
(* load_and_analyze_data, the Holt-Winters forecast make_forecast, the     *)
(* recommendation engine generate_recommendations and the module-level     *)
(* script that wires them to the widgets.                                  *)
(*                                                                         *)
(* Column names are transliterated (the source's are Cyrillic):            *)
(*   Date = 'Data', Volume = 'Obem prodazh', Product = 'Vid produkta',     *)
(*   Location = 'Mestopolozhenie', Price = 'Summa',                        *)
(*   Customer = 'Tip pokupatelya', Revenue = 'Vyruchka'.                   *)
(* A date is the ordinal of a calendar day, day 1 being 1 January of a     *)
(* non-leap year.  A dataframe is a record [cols, rows]: the set of its    *)
(* column names and the set of its rows (records indexed by column name).  *)
(* Lines 200-202 and 216 of the source each lack one closing parenthesis;  *)
(* the model reads them with that parenthesis in place.                    *)
(***************************************************************************)
EXTENDS Integers, Sequences, FiniteSets, TLC

VARIABLES
    pc,               \* position of the script / of the function under call
    uploaded_file,    \* the file handed to st.file_uploader
    error_msg,        \* first result of load_and_analyze_data
    df,               \* second result of load_and_analyze_data / the function's argument
    date_range,       \* value of the date_input widget (a tuple of 0, 1 or 2 dates)
    products,         \* value of the product multiselect
    locations,        \* value of the location multiselect
    filtered_df,      \* the filtered table
    periods,          \* make_forecast's horizon (30 by default, line 43)
    daily_data,       \* make_forecast's local: the series given to ExponentialSmoothing
    forecast_df,      \* first result of make_forecast
    forecast_error,   \* second result of make_forecast
    daily_sales,      \* generate_recommendations' local: the series given to seasonal_decompose
    recommendations,  \* result of generate_recommendations
    check_status,     \* what became of each check generate_recommendations ran, in order
    raised,           \* the exception that left the function or the script, or None
    screen            \* the st.* calls made so far, in order

vars == <<pc, uploaded_file, error_msg, df, date_range, products, locations,
          filtered_df, periods, daily_data, forecast_df, forecast_error,
          daily_sales, recommendations, check_status, raised, screen>>

-----------------------------------------------------------------------------
(* Values *)

None == [none |-> TRUE]

\* NaN of a float column; volumes and prices of the model are never negative.
NaN == 0 - 1

required_columns == <<"Date", "Volume", "Product", "Location", "Price", "Customer">>

RequiredSet == {required_columns[i] : i \in 1..Len(required_columns)}

LoadedCols == RequiredSet \cup {"Revenue"}

\* len(daily_data) < 30
MinDays == 30

\* seasonal_periods=7, period=7
SeasonalPeriod == 7

\* make_forecast(df, periods=30)
DefaultPeriods == 30

-----------------------------------------------------------------------------
(* pandas helpers *)

RECURSIVE SumCol(_, _)
SumCol(rows, col) ==
    IF rows = {} THEN 0
    ELSE LET r == CHOOSE r \in rows : TRUE
         IN  r[col] + SumCol(rows \ {r}, col)

Min(S) == CHOOSE m \in S : \A x \in S : m <= x
Max(S) == CHOOSE m \in S : \A x \in S : m >= x

\* df.groupby('Date')[...'Volume'].sum(): one point per observed date, in date order
RECURSIVE SortedSeq(_)
SortedSeq(S) == IF S = {} THEN <<>> ELSE <<Min(S)>> \o SortedSeq(S \ {Min(S)})

GroupByDateSum(rows) ==
    LET dates == SortedSeq({r.Date : r \in rows})
    IN  [i \in 1..Len(dates) |->
            [Date |-> dates[i],
             Volume |-> SumCol({r \in rows : r.Date = dates[i]}, "Volume")]]

SeriesDates(s) == {s[i].Date : i \in 1..Len(s)}

\* .asfreq('D'): every calendar day from the first to the last index value,
\* NaN where the day had no point; an empty index stays empty
asfreq_D(s) ==
    IF s = <<>> THEN <<>>
    ELSE LET first == s[1].Date
             last  == s[Len(s)].Date
         IN  [i \in 1..(last - first + 1) |->
                [Date |-> first + i - 1,
                 Volume |-> IF first + i - 1 \in SeriesDates(s)
                            THEN s[CHOOSE j \in 1..Len(s) : s[j].Date = first + i - 1].Volume
                            ELSE NaN] ]

\* .fillna(0)
fillna_0(s) ==
    [i \in 1..Len(s) |->
        [Date |-> s[i].Date, Volume |-> IF s[i].Volume = NaN THEN 0 ELSE s[i].Volume]]

\* a column access raises KeyError when the table has no such column
HasCols(d, cs) == cs \subseteq d.cols

-----------------------------------------------------------------------------
(* make_forecast, lines 43-81 *)

\* lines 45-46
DailyData(d) == fillna_0(asfreq_D(GroupByDateSum(d.rows)))

\* line 48
InsufficientLe(daily) == Len(daily) <= MinDays

Insufficient(daily) == Len(daily) < MinDays

\* lines 52-60: ExponentialSmoothing(...).fit().forecast(periods).  The fitted
\* numbers are the library's; a forecast point is kept as the step it predicts.
HWForecast(daily, n) == [k \in 1..n |-> [step |-> k]]

\* lines 61-64: pd.date_range(start=index[-1] + 1 day, periods=periods)
FutureDatesFromLast(daily, n) == [k \in 1..n |-> daily[Len(daily)].Date + k - 1]

future_dates(daily, n) == [k \in 1..n |-> daily[Len(daily)].Date + k]

\* lines 66-70
ForecastRows(daily, n) ==
    [k \in 1..n |-> [Date |-> future_dates(daily, n)[k],
                     Volume |-> HWForecast(daily, n)[k],
                     Type |-> "Forecast"]]

\* lines 72-76
ActualRows(daily) ==
    [i \in 1..Len(daily) |-> [Date |-> daily[i].Date,
                              Volume |-> daily[i].Volume,
                              Type |-> "Actual"]]

\* the whole function: <<table, error>>, and the series it built (None when
\* the exception came before line 46 finished)
make_forecast(d, n) ==
    IF ~HasCols(d, {"Date", "Volume"})
    THEN [table |-> None, error |-> [kind |-> "forecast_error"], daily |-> None]
    ELSE LET daily == DailyData(d)
         IN  IF Insufficient(daily)
             THEN [table |-> None, error |-> [kind |-> "min_30_days"],
                   daily |-> [series |-> daily]]
             ELSE [table |-> [rows |-> ActualRows(daily) \o ForecastRows(daily, n)],
                   error |-> None,
                   daily |-> [series |-> daily]]

-----------------------------------------------------------------------------
(* generate_recommendations, lines 84-222 *)

\* The result of one check: what became of it and the observation it appended.
\*   "ok"        it ran to its end,
\*   "warned"    its try block raised and the handler called st.warning (line 106),
\*   "swallowed" its try block raised and the handler is `pass` (lines 190, 207),
\*   "raised"    it raised outside any try block.
Outcome(st, obs) == [status |-> st, obs |-> obs]

Keys(rows, col) == {r[col] : r \in rows}

GroupSum(rows, key, k, col) == SumCol({r \in rows : r[key] = k}, col)

\* df['Date'].dt.dayofweek, Monday = 0; day 1 is a Sunday (1 January 2023)
dayofweek(d) == (d + 5) % 7

\* idxmax / idxmin of the weekday totals: the first weekday holding the extreme
best_day(rows) ==
    LET wd == {dayofweek(r.Date) : r \in rows}
        tot(w) == SumCol({r \in rows : dayofweek(r.Date) = w}, "Volume")
    IN  Min({w \in wd : \A v \in wd : tot(w) >= tot(v)})

worst_day(rows) ==
    LET wd == {dayofweek(r.Date) : r \in rows}
        tot(w) == SumCol({r \in rows : dayofweek(r.Date) = w}, "Volume")
    IN  Min({w \in wd : \A v \in wd : tot(w) <= tot(v)})

\* line 89: the daily series handed to seasonal_decompose
DailySales(d) == GroupByDateSum(d.rows)

\* lines 88-106.  seasonal_decompose(x, period=7) raises ValueError for fewer
\* than 2 * period observations.  The seasonal component is the library's
\* arithmetic: whether its deviation exceeds 10% of the mean (line 92) is left
\* open, except for a constant series, whose seasonal component is zero.
Check1(d) ==
    IF ~HasCols(d, {"Date", "Volume"}) THEN {Outcome("warned", <<>>)}
    ELSE LET s == DailySales(d)
         IN  IF Len(s) < 2 * SeasonalPeriod THEN {Outcome("warned", <<>>)}
             ELSE {Outcome("ok", <<>>)} \cup
                  IF \A i \in 1..Len(s) : s[i].Volume = s[1].Volume THEN {}
                  ELSE {Outcome("ok", <<[kind |-> "seasonality",
                                         best |-> best_day(d.rows),
                                         worst |-> worst_day(d.rows)]>>)}

\* every ordering of the keys that sort_values can give: val descending when
\* desc, ascending otherwise, keys of equal val in any order
RECURSIVE Orderings(_, _, _)
Orderings(keys, val, desc) ==
    IF keys = {} THEN {<<>>}
    ELSE UNION { {<<k>> \o rest : rest \in Orderings(keys \ {k}, val, desc)} :
                 k \in {k \in keys : \A j \in keys :
                            IF desc THEN val[k] >= val[j] ELSE val[k] <= val[j]} }

head_n(seq, n) == SubSeq(seq, 1, IF Len(seq) < n THEN Len(seq) ELSE n)

tail_n(seq, n) == SubSeq(seq, IF Len(seq) < n THEN 1 ELSE Len(seq) - n + 1, Len(seq))

ProductLine(rows, p) ==
    [product |-> p,
     volume  |-> GroupSum(rows, "Product", p, "Volume"),
     revenue |-> GroupSum(rows, "Product", p, "Revenue")]

\* line 113: .sort_values('Revenue', ascending=False)
ProductSortKeyVolume(rows) ==
    [p \in Keys(rows, "Product") |-> GroupSum(rows, "Product", p, "Volume")]

ProductSortKey(rows) ==
    [p \in Keys(rows, "Product") |-> GroupSum(rows, "Product", p, "Revenue")]

\* lines 109-113
product_analysis(rows) == Orderings(Keys(rows, "Product"), ProductSortKey(rows), TRUE)

\* lines 109-133
Check2(d) ==
    IF ~HasCols(d, {"Product", "Volume", "Revenue", "Price"}) THEN {Outcome("raised", <<>>)}
    ELSE IF Keys(d.rows, "Product") = {} THEN {Outcome("ok", <<>>)}
    ELSE { Outcome("ok", <<[kind |-> "products",
                            top |-> [i \in 1..Len(head_n(pa, 3)) |->
                                        ProductLine(d.rows, head_n(pa, 3)[i])],
                            bottom |-> [i \in 1..Len(tail_n(pa, 3)) |->
                                        ProductLine(d.rows, tail_n(pa, 3)[i])]]>>) :
           pa \in product_analysis(d.rows) }

\* sort_values('Revenue', ascending=...).iloc[0] over the groups of column key
FirstByRevenue(rows, key, desc) ==
    {o[1] : o \in Orderings(Keys(rows, key),
                            [k \in Keys(rows, key) |-> GroupSum(rows, key, k, "Revenue")],
                            desc)}

\* lines 136-153
Check3(d) ==
    IF ~HasCols(d, {"Customer", "Revenue", "Price"}) THEN {Outcome("raised", <<>>)}
    ELSE IF Cardinality(Keys(d.rows, "Customer")) > 1
    THEN { Outcome("ok", <<[kind |-> "customers", best |-> b, worst |-> w]>>) :
           b \in FirstByRevenue(d.rows, "Customer", TRUE),
           w \in FirstByRevenue(d.rows, "Customer", FALSE) }
    ELSE {Outcome("ok", <<>>)}

\* lines 156-173
Check4(d) ==
    IF ~HasCols(d, {"Location", "Revenue", "Volume", "Price"}) THEN {Outcome("raised", <<>>)}
    ELSE IF Cardinality(Keys(d.rows, "Location")) > 1
    THEN { Outcome("ok", <<[kind |-> "locations", best |-> b, worst |-> w]>>) :
           b \in FirstByRevenue(d.rows, "Location", TRUE),
           w \in FirstByRevenue(d.rows, "Location", FALSE) }
    ELSE {Outcome("ok", <<>>)}

\* the calendar month of a day of the year (non-leap)
MonthOf(d) ==
    IF d <= 31 THEN 1 ELSE IF d <= 59 THEN 2 ELSE IF d <= 90 THEN 3 ELSE 4

\* line 177: groupby(pd.Grouper(key='Date', freq='M'))['Revenue'].sum(): one
\* bin per calendar month from the first to the last month, empty months 0
MonthlyRevenue(rows) ==
    LET ms == {MonthOf(r.Date) : r \in rows}
    IN  IF rows = {} THEN <<>>
        ELSE [i \in 1..(Max(ms) - Min(ms) + 1) |->
                 SumCol({r \in rows : MonthOf(r.Date) = Min(ms) + i - 1}, "Revenue")]

\* lines 177, 180: the last element of .pct_change(), (last - prev) / prev in
\* floating point, kept as its sign: x/0 is inf for x > 0 and NaN for x = 0
last_growth(monthly) ==
    LET prev == monthly[Len(monthly) - 1]
        last == monthly[Len(monthly)]
    IN  IF prev = 0 THEN (IF last = 0 THEN "nan" ELSE "pos")
        ELSE IF last > prev THEN "pos"
        ELSE IF last < prev THEN "neg" ELSE "zero"

\* line 182
trend(g) == IF g = "pos" THEN "growth" ELSE "decline"

\* lines 183-184
recommendation(g) == IF g = "neg" THEN "increase_marketing" ELSE "keep_strategy"

\* lines 176-191.  freq='M' and the positional monthly_growth[-1] on a date
\* index are accepted by pandas 1.x and 2.x and raise in pandas 3, inside the
\* try block: the installed version decides.
Check5(d) ==
    IF ~HasCols(d, {"Date", "Revenue"}) THEN {Outcome("swallowed", <<>>)}
    ELSE LET monthly == MonthlyRevenue(d.rows)
         IN  {Outcome("swallowed", <<>>)} \cup
             IF Len(monthly) > 1
             THEN {Outcome("ok", <<[kind |-> "trend",
                                    trend |-> trend(last_growth(monthly)),
                                    advice |-> recommendation(last_growth(monthly))]>>)}
             ELSE {Outcome("ok", <<>>)}

\* x['Volume'].corr(x['Price']) of one product's rows is NaN unless both
\* columns vary; of exactly two rows it is +1 or -1
Varies(rows, col) == Cardinality(Keys(rows, col)) > 1

Correlated(rows) ==
    {p \in Keys(rows, "Product") :
        LET g == {r \in rows : r.Product = p}
        IN  Varies(g, "Volume") /\ Varies(g, "Price")}

PairSign(g) ==
    LET a == CHOOSE r \in g : TRUE
        b == CHOOSE r \in g : r # a
    IN  IF (a.Volume - b.Volume) * (a.Price - b.Price) > 0 THEN 1 ELSE 0 - 1

RECURSIVE SumSigns(_, _)
SumSigns(rows, ps) ==
    IF ps = {} THEN 0
    ELSE LET p == CHOOSE p \in ps : TRUE
         IN  PairSign({r \in rows : r.Product = p}) + SumSigns(rows, ps \ {p})

Elastic == [kind |-> "elasticity"]

Premium == [kind |-> "premium"]

\* lines 194-208.  The mean of the per-product correlations is compared with
\* -0.3 and 0.1; it is computed where every correlation is +1 or -1 and left
\* open otherwise.  On an empty table the groupby-apply gives an empty frame
\* or an empty series, depending on the pandas version: the comparison then
\* raises inside the try block, or is False.
Check6(d) ==
    IF ~HasCols(d, {"Product", "Volume", "Price"}) THEN {Outcome("swallowed", <<>>)}
    ELSE IF d.rows = {} THEN {Outcome("swallowed", <<>>), Outcome("ok", <<>>)}
    ELSE LET ps == Correlated(d.rows)
         IN  IF ps = {} THEN {Outcome("ok", <<>>)}
             ELSE IF \A p \in ps : Cardinality({r \in d.rows : r.Product = p}) = 2
             THEN IF 10 * SumSigns(d.rows, ps) < (0 - 3) * Cardinality(ps)
                  THEN {Outcome("ok", <<Elastic>>)}
                  ELSE IF 10 * SumSigns(d.rows, ps) > Cardinality(ps)
                  THEN {Outcome("ok", <<Premium>>)}
                  ELSE {Outcome("ok", <<>>)}
             ELSE {Outcome("ok", <<>>), Outcome("ok", <<Elastic>>), Outcome("ok", <<Premium>>)}

\* lines 211-218
Check7(d) ==
    IF ~HasCols(d, {"Volume"}) THEN {Outcome("raised", <<>>)}
    ELSE LET zero_sales_days == {r \in d.rows : r.Volume = 0}
         IN  IF zero_sales_days = {} THEN {Outcome("ok", <<>>)}
             ELSE IF ~HasCols(d, {"Date", "Price"}) THEN {Outcome("raised", <<>>)}
             ELSE {Outcome("ok", <<[kind |-> "lost_revenue",
                                    days |-> Cardinality(Keys(zero_sales_days, "Date"))]>>)}

\* lines 220-222
Fallback == [kind |-> "insufficient_data"]

NumChecks == 7

\* the checks in source order; an exception outside a try block ends the call
Stop(os) ==
    IF \E i \in 1..NumChecks : os[i].status = "raised"
    THEN Min({i \in 1..NumChecks : os[i].status = "raised"})
    ELSE NumChecks + 1

RECURSIVE Appended(_, _)
Appended(os, k) == IF k = 0 THEN <<>> ELSE Appended(os, k - 1) \o os[k].obs

ReturnedAsIs(recs) == recs

Returned(recs) == IF recs = <<>> THEN <<Fallback>> ELSE recs

ResultWarnAll(os) ==
    LET stop == Stop(os)
    IN  [outcomes |-> SubSeq(os, 1, IF stop > NumChecks THEN NumChecks ELSE stop),
         raised   |-> IF stop > NumChecks THEN None
                      ELSE [exception |-> "KeyError", check |-> stop],
         value    |-> IF stop > NumChecks THEN [list |-> Returned(Appended(os, NumChecks))]
                      ELSE None,
         warnings |-> IF \E i \in 1..NumChecks : os[i].status \in {"warned", "swallowed"}
                      THEN <<[call |-> "st.warning", what |-> "seasonality_error"]>>
                      ELSE <<>>]

Result(os) ==
    LET stop == Stop(os)
    IN  [outcomes |-> SubSeq(os, 1, IF stop > NumChecks THEN NumChecks ELSE stop),
         raised   |-> IF stop > NumChecks THEN None
                      ELSE [exception |-> "KeyError", check |-> stop],
         value    |-> IF stop > NumChecks THEN [list |-> Returned(Appended(os, NumChecks))]
                      ELSE None,
         warnings |-> IF os[1].status = "warned"
                      THEN <<[call |-> "st.warning", what |-> "seasonality_error"]>>
                      ELSE <<>>]

\* the whole function: every result the call can have
generate_recommendations(d) ==
    { Result(<<o1, o2, o3, o4, o5, o6, o7>>) :
        o1 \in Check1(d), o2 \in Check2(d), o3 \in Check3(d), o4 \in Check4(d),
        o5 \in Check5(d), o6 \in Check6(d), o7 \in Check7(d) }

-----------------------------------------------------------------------------
(* load_and_analyze_data, lines 24-40 *)

\* line 29
MissingFirstOnly(cols) ==
    LET all == SelectSeq(required_columns, LAMBDA c : c \notin cols)
    IN  IF all = <<>> THEN <<>> ELSE <<all[1]>>

missing_columns(cols) == SelectSeq(required_columns, LAMBDA c : c \notin cols)

\* line 35
RevenueSum(r) == r.Volume + r.Price

Revenue(r) == r.Volume * r.Price

WithRevenue(r) ==
    [Date |-> r.Date, Volume |-> r.Volume, Product |-> r.Product,
     Location |-> r.Location, Price |-> r.Price, Customer |-> r.Customer,
     Revenue |-> Revenue(r)]

\* a file: whether pd.read_excel reads it, its columns, its rows and whether
\* pd.to_datetime parses its date column
load_and_analyze_data(file) ==
    IF ~file.readable
    THEN [error |-> [kind |-> "load_error"], df |-> None]
    ELSE IF missing_columns(file.cols) # <<>>
    THEN [error |-> [kind |-> "missing_columns", columns |-> missing_columns(file.cols)],
          df |-> None]
    ELSE IF ~file.dates_parse
    THEN [error |-> [kind |-> "load_error"], df |-> None]
    ELSE [error |-> None,
          df |-> [cols |-> file.cols \cup {"Revenue"},
                  rows |-> {WithRevenue(r) : r \in file.rows}]]

-----------------------------------------------------------------------------
(* Inputs *)

RECURSIVE SubsetsUpTo(_, _)
SubsetsUpTo(U, n) ==
    IF n = 0 THEN {{}}
    ELSE LET prev == SubsetsUpTo(U, n - 1)
         IN  prev \cup {S \cup {x} : S \in prev, x \in U}

Row(d, v, p, l, pr, c) ==
    [Date |-> d, Volume |-> v, Product |-> p, Location |-> l, Price |-> pr,
     Customer |-> c, Revenue |-> v * pr]

\* tables given to make_forecast: at most MaxForecastRows transactions on the
\* days 1..MaxDay, and tables that lack a column the function reads
MaxDay == 31

MaxForecastRows == 2

MaxPeriods == 2

ForecastVolumes == {1, 2}

ForecastRowSet == {Row(d, v, "A", "L1", 1, "T1") : d \in 1..MaxDay, v \in ForecastVolumes}

ForecastInputs ==
    {[cols |-> LoadedCols, rows |-> rs] : rs \in SubsetsUpTo(ForecastRowSet, MaxForecastRows)}
    \cup {[cols |-> LoadedCols \ {c}, rows |-> {Row(1, 1, "A", "L1", 1, "T1")}] :
            c \in {"Date", "Volume"}}

-----------------------------------------------------------------------------
(* make_forecast called on its own *)

Unused ==
    /\ uploaded_file = None /\ error_msg = None
    /\ date_range = None /\ products = None /\ locations = None
    /\ filtered_df = None

InitForecast ==
    /\ pc = "call"
    /\ df \in ForecastInputs
    /\ periods \in 1..MaxPeriods
    /\ Unused
    /\ daily_data = None /\ forecast_df = None /\ forecast_error = None
    /\ daily_sales = None /\ recommendations = None /\ raised = None
    /\ check_status = <<>>
    /\ screen = <<>>

CallMakeForecast ==
    /\ pc = "call"
    /\ LET res == make_forecast(df, periods)
       IN  /\ forecast_df' = res.table
           /\ forecast_error' = res.error
           /\ daily_data' = res.daily
    /\ pc' = "returned"
    /\ UNCHANGED <<uploaded_file, error_msg, df, date_range, products, locations,
                   filtered_df, periods, daily_sales, recommendations, check_status,
                   raised, screen>>

NextForecast == CallMakeForecast

SpecForecast == InitForecast /\ [][NextForecast]_vars

-----------------------------------------------------------------------------
(* generate_recommendations called on its own *)

\* a run of consecutive daily transactions, days 1..n, of one product: either
\* the same volume every day or a higher volume on Saturdays and Sundays
HistoryDays == 2 * SeasonalPeriod - 1

History(pattern) ==
    {Row(d, IF pattern = "weekly" /\ dayofweek(d) >= 5 THEN 200 ELSE 100,
              "A", "L1", 1, "T1") : d \in 1..HistoryDays}

MaxProductRows == 4

MaxMarketRows == 3

MaxHistoryExtra == 1

\* transactions that differ in product, volume and price
ProductRows ==
    {Row(14, v, p, "L1", pr, "T1") : v \in {50, 100, 200}, p \in {"A", "B", "C", "D"}, pr \in {1, 10}}

\* transactions that differ in month, place, customer type, and zero volume
MarketRows ==
    {Row(d, v, "A", lc[1], 1, lc[2]) :
        d \in {14, 40}, v \in {0, 100},
        lc \in {<<"L1", "T1">>, <<"L1", "T2">>, <<"L2", "T1">>}}

SampleRows == {Row(14, 0, "A", "L1", 1, "T1"), Row(40, 100, "B", "L2", 10, "T2")}

RecInputs ==
    {[cols |-> LoadedCols, rows |-> rs] :
        rs \in SubsetsUpTo(ProductRows, MaxProductRows)
                  \cup SubsetsUpTo(MarketRows, MaxMarketRows)}
    \cup {[cols |-> LoadedCols, rows |-> History(h) \cup rs] :
            h \in {"flat", "weekly"},
            rs \in SubsetsUpTo(ProductRows \cup MarketRows, MaxHistoryExtra)}
    \cup {[cols |-> LoadedCols \ {c}, rows |-> SampleRows] : c \in LoadedCols}

InitRecs ==
    /\ pc = "call"
    /\ df \in RecInputs
    /\ periods = None
    /\ Unused
    /\ daily_data = None /\ forecast_df = None /\ forecast_error = None
    /\ daily_sales = None /\ recommendations = None /\ raised = None
    /\ check_status = <<>>
    /\ screen = <<>>

CallGenerateRecommendations ==
    /\ pc = "call"
    /\ \E res \in generate_recommendations(df) :
          /\ recommendations' = res.value
          /\ check_status' = [i \in 1..Len(res.outcomes) |-> res.outcomes[i].status]
          /\ raised' = res.raised
          /\ screen' = screen \o res.warnings
          /\ pc' = IF res.raised = None THEN "returned" ELSE "raised"
    /\ daily_sales' = IF HasCols(df, {"Date", "Volume"})
                      THEN [series |-> DailySales(df)] ELSE None
    /\ UNCHANGED <<uploaded_file, error_msg, df, date_range, products, locations,
                   filtered_df, periods, daily_data, forecast_df, forecast_error>>

NextRecs == CallGenerateRecommendations

SpecRecs == InitRecs /\ [][NextRecs]_vars

-----------------------------------------------------------------------------
(* The script, lines 321-629 *)

\* the days a file's transactions fall on: the first two days of the year and
\* the first day that makes the history 30 days long, counted from day 2
ScriptDates == {1, 2, MinDays + 1}

MaxFileRows == 2

FileRowSet ==
    {[Date |-> d, Volume |-> 3, Product |-> p, Location |-> l, Price |-> 2,
      Customer |-> "T1"] : d \in ScriptDates, p \in {"A", "B"}, l \in {"L1", "L2"}}

SampleFileRows == {[Date |-> 1, Volume |-> 3, Product |-> "A", Location |-> "L1",
                    Price |-> 2, Customer |-> "T1"]}

\* transactions of one day whose volumes and prices differ, a volume of zero
\* among them
PricedRows ==
    {[Date |-> 1, Volume |-> v, Product |-> "A", Location |-> "L1", Price |-> p,
      Customer |-> "T1"] : v \in {0, 4}, p \in {2, 5}}

File(readable, cols, rows, parse) ==
    [readable |-> readable, cols |-> cols, rows |-> rows, dates_parse |-> parse]

\* files with the six columns and any rows; files with any columns; a file
\* read_excel cannot read; a file whose dates do not parse
Files ==
    {File(TRUE, RequiredSet, rs, TRUE) :
        rs \in SubsetsUpTo(FileRowSet, MaxFileRows) \cup SubsetsUpTo(PricedRows, MaxFileRows)}
    \cup {File(TRUE, cs, SampleFileRows, TRUE) : cs \in SUBSET (RequiredSet \cup {"Extra"})}
    \cup {File(FALSE, {}, {}, TRUE), File(TRUE, RequiredSet, SampleFileRows, FALSE)}

Show(entry) == screen' = Append(screen, entry)

Init ==
    /\ pc = "upload"
    /\ uploaded_file = None /\ error_msg = None /\ df = None
    /\ date_range = None /\ products = None /\ locations = None
    /\ filtered_df = None /\ periods = DefaultPeriods
    /\ daily_data = None /\ forecast_df = None /\ forecast_error = None
    /\ daily_sales = None /\ recommendations = None /\ check_status = <<>>
    /\ raised = None
    /\ screen = <<>>

\* lines 338-344: the run with no file uploaded ends at once
NoUpload ==
    /\ pc = "upload"
    /\ pc' = "done"
    /\ UNCHANGED <<uploaded_file, error_msg, df, date_range, products, locations,
                   filtered_df, periods, daily_data, forecast_df, forecast_error,
                   daily_sales, recommendations, check_status, raised, screen>>

\* lines 338-344
Upload ==
    /\ pc = "upload"
    /\ uploaded_file' \in Files
    /\ pc' = "load"
    /\ UNCHANGED <<error_msg, df, date_range, products, locations,
                   filtered_df, periods, daily_data, forecast_df, forecast_error,
                   daily_sales, recommendations, check_status, raised, screen>>

\* line 345
Load ==
    /\ pc = "load"
    /\ error_msg' = load_and_analyze_data(uploaded_file).error
    /\ df' = load_and_analyze_data(uploaded_file).df
    /\ pc' = "loaded"
    /\ UNCHANGED <<uploaded_file, date_range, products, locations,
                   filtered_df, periods, daily_data, forecast_df, forecast_error,
                   daily_sales, recommendations, check_status, raised, screen>>

\* lines 347-348
ShowError ==
    /\ pc = "loaded"
    /\ error_msg # None
    /\ Show([call |-> "st.error", what |-> error_msg])
    /\ pc' = "done"
    /\ UNCHANGED <<uploaded_file, error_msg, df, date_range, products, locations,
                   filtered_df, periods, daily_data, forecast_df, forecast_error,
                   daily_sales, recommendations, check_status, raised>>

\* lines 351-360; the average price is shown as its numerator and denominator
Metrics ==
    /\ pc = "loaded"
    /\ error_msg = None
    /\ Show([call |-> "metrics",
             total_sales |-> SumCol(df.rows, "Volume"),
             total_revenue |-> SumCol(df.rows, "Revenue"),
             avg_price |-> <<SumCol(df.rows, "Price"), Cardinality(df.rows)>>,
             unique_products |-> Cardinality(Keys(df.rows, "Product"))])
    /\ pc' = "sidebar"
    /\ UNCHANGED <<uploaded_file, error_msg, df, date_range, products, locations,
                   filtered_df, periods, daily_data, forecast_df, forecast_error,
                   daily_sales, recommendations, check_status, raised>>

\* lines 364-365 on a table without rows: min() is NaT and NaT.date() raises
SidebarFails ==
    /\ pc = "sidebar"
    /\ df.rows = {}
    /\ raised' = [exception |-> "ValueError", line |-> 364]
    /\ pc' = "crashed"
    /\ UNCHANGED <<uploaded_file, error_msg, df, date_range, products, locations,
                   filtered_df, periods, daily_data, forecast_df, forecast_error,
                   daily_sales, recommendations, check_status, screen>>

\* what st.date_input can hold: no date, one date (a range being picked) or a
\* range, within [min_value, max_value]
DateInputs(lo, hi) ==
    LET days == {d \in ScriptDates : lo <= d /\ d <= hi}
    IN  {<<>>} \cup {<<a>> : a \in days}
        \cup {ab \in days \X days : ab[1] <= ab[2]}

\* lines 363-384
Sidebar ==
    /\ pc = "sidebar"
    /\ df.rows # {}
    /\ \E dr \in DateInputs(Min(Keys(df.rows, "Date")), Max(Keys(df.rows, "Date"))) :
          date_range' = [value |-> dr]
    /\ \E ps \in SUBSET Keys(df.rows, "Product") : products' = [value |-> ps]
    /\ \E ls \in SUBSET Keys(df.rows, "Location") : locations' = [value |-> ls]
    /\ pc' = "filter"
    /\ UNCHANGED <<uploaded_file, error_msg, df,
                   filtered_df, periods, daily_data, forecast_df, forecast_error,
                   daily_sales, recommendations, check_status, raised, screen>>

\* lines 387-399
FilterNoLocations(d, dr, ps, ls) ==
    [cols |-> d.cols,
     rows |-> {r \in d.rows :
                 /\ Len(dr) = 2 => (r.Date >= dr[1] /\ r.Date <= dr[2])
                 /\ r.Product \in ps}]

Filter(d, dr, ps, ls) ==
    [cols |-> d.cols,
     rows |-> IF Len(dr) = 2
              THEN {r \in d.rows : /\ r.Date >= dr[1]
                                   /\ r.Date <= dr[2]
                                   /\ r.Product \in ps
                                   /\ r.Location \in ls}
              ELSE {r \in d.rows : /\ r.Product \in ps
                                   /\ r.Location \in ls}]

\* lines 387-515: the filter, then the charts of the first three tabs
ApplyFilters ==
    /\ pc = "filter"
    /\ filtered_df' = Filter(df, date_range.value, products.value, locations.value)
    /\ Show([call |-> "charts"])
    /\ pc' = "forecast"
    /\ UNCHANGED <<uploaded_file, error_msg, df, date_range, products, locations,
                   periods, daily_data, forecast_df, forecast_error,
                   daily_sales, recommendations, check_status, raised>>

\* lines 517-589
ForecastStops ==
    /\ pc = "forecast"
    /\ LET res == make_forecast(filtered_df, periods)
       IN  /\ forecast_df' = res.table
           /\ forecast_error' = res.error
           /\ daily_data' = res.daily
           /\ IF res.error # None
              THEN /\ Show([call |-> "st.warning", what |-> res.error])
                   /\ pc' = "done"
              ELSE /\ Show([call |-> "forecast_chart", table |-> res.table])
                   /\ pc' = "recommend"
    /\ UNCHANGED <<uploaded_file, error_msg, df, date_range, products, locations,
                   filtered_df, periods, daily_sales, recommendations, check_status,
                   raised>>

Forecast ==
    /\ pc = "forecast"
    /\ LET res == make_forecast(filtered_df, periods)
       IN  /\ forecast_df' = res.table
           /\ forecast_error' = res.error
           /\ daily_data' = res.daily
           /\ IF res.error # None
              THEN Show([call |-> "st.warning", what |-> res.error])
              ELSE Show([call |-> "forecast_chart", table |-> res.table])
    /\ pc' = "recommend"
    /\ UNCHANGED <<uploaded_file, error_msg, df, date_range, products, locations,
                   filtered_df, periods, daily_sales, recommendations, check_status,
                   raised>>

\* lines 591-594: an exception of generate_recommendations ends the run
Recommend ==
    /\ pc = "recommend"
    /\ \E res \in generate_recommendations(filtered_df) :
          /\ recommendations' = res.value
          /\ check_status' = [i \in 1..Len(res.outcomes) |-> res.outcomes[i].status]
          /\ raised' = res.raised
          /\ IF res.raised # None
             THEN /\ screen' = screen \o res.warnings
                  /\ pc' = "crashed"
             ELSE /\ screen' = screen \o res.warnings \o
                        [i \in 1..Len(res.value.list) |->
                            [call |-> "st.success", what |-> res.value.list[i]]]
                  /\ pc' = "export"
    /\ daily_sales' = [series |-> DailySales(filtered_df)]
    /\ UNCHANGED <<uploaded_file, error_msg, df, date_range, products, locations,
                   filtered_df, periods, daily_data, forecast_df, forecast_error>>

\* lines 597-607
ExportCsv ==
    /\ pc = "export"
    /\ Show([call |-> "download_button", label |-> "csv", data |-> filtered_df.rows])
    /\ pc' = "pdf"
    /\ UNCHANGED <<uploaded_file, error_msg, df, date_range, products, locations,
                   filtered_df, periods, daily_data, forecast_df, forecast_error,
                   daily_sales, recommendations, check_status, raised>>

\* line 610: the PDF button is not pressed
PdfNotPressed ==
    /\ pc = "pdf"
    /\ pc' = "done"
    /\ UNCHANGED <<uploaded_file, error_msg, df, date_range, products, locations,
                   filtered_df, periods, daily_data, forecast_df, forecast_error,
                   daily_sales, recommendations, check_status, raised, screen>>

\* lines 610-617: the PDF button is pressed; kpi_text is not defined
PdfPressed ==
    /\ pc = "pdf"
    /\ raised' = [exception |-> "NameError", line |-> 614]
    /\ pc' = "crashed"
    /\ UNCHANGED <<uploaded_file, error_msg, df, date_range, products, locations,
                   filtered_df, periods, daily_data, forecast_df, forecast_error,
                   daily_sales, recommendations, check_status, screen>>

Next ==
    \/ NoUpload
    \/ Upload
    \/ Load
    \/ ShowError
    \/ Metrics
    \/ SidebarFails
    \/ Sidebar
    \/ ApplyFilters
    \/ Forecast
    \/ Recommend
    \/ ExportCsv
    \/ PdfNotPressed
    \/ PdfPressed

Spec == Init /\ [][Next]_vars

-----------------------------------------------------------------------------
(* Properties of make_forecast *)

\* every calendar day from the first to the last date of the rows
CalendarDays(rows) ==
    IF rows = {} THEN {} ELSE Min(Keys(rows, "Date"))..Max(Keys(rows, "Date"))

Tagged(table, tag) == SelectSeq(table.rows, LAMBDA r : r.Type = tag)

\* C1: make_forecast(df, periods=N) returns the insufficient-data error and no
\* table whenever the daily aggregate series has fewer than 30 daily points,
\* and with 30 or more points it returns no error and a table with exactly N
\* rows tagged as forecast.
C1_ForecastThreshold ==
    (pc = "returned" /\ daily_data # None) =>
        LET n == Cardinality(CalendarDays(df.rows))
        IN  /\ n < 30 => /\ forecast_df = None
                         /\ forecast_error = [kind |-> "min_30_days"]
            /\ n >= 30 => /\ forecast_error = None
                          /\ forecast_df # None
                          /\ Len(Tagged(forecast_df, "Forecast")) = periods

C1_Witness ==
    /\ pc = "returned"
    /\ Cardinality(CalendarDays(df.rows)) = 30
    /\ forecast_df # None
    /\ Len(Tagged(forecast_df, "Forecast")) = 2
    /\ periods = 2

\* the series holds every calendar day between the first and the last date of
\* the rows exactly once, in order, with the day's total volume, 0 for a day
\* without transactions
Contiguous(series, rows) ==
    /\ Len(series) = Cardinality(CalendarDays(rows))
    /\ \A i \in 1..Len(series) :
          /\ series[i].Date = Min(Keys(rows, "Date")) + i - 1
          /\ series[i].Volume = SumCol({r \in rows : r.Date = series[i].Date}, "Volume")

\* C2: the daily aggregate series given to a seasonal model (the Holt-Winters
\* fit of make_forecast, the period-7 decomposition of
\* generate_recommendations) contains every calendar day between the minimum
\* and the maximum observed date exactly once, days without transactions
\* having volume zero.
C2_SeasonalInputContiguous ==
    /\ daily_data # None => Contiguous(daily_data.series, df.rows)
    /\ daily_sales # None => Contiguous(daily_sales.series, df.rows)

\* C10: a successful make_forecast(df, periods=N) returns one table whose rows
\* are all tagged actual or forecast; the actual rows are exactly the days of
\* the daily aggregate series; the forecast rows are the N consecutive
\* calendar days that start on the day after the last actual date; no date
\* appears under both tags.
C10_ForecastTable ==
    (pc = "returned" /\ forecast_df # None) =>
        LET actual == Tagged(forecast_df, "Actual")
            fc     == Tagged(forecast_df, "Forecast")
            last   == Max(Keys(df.rows, "Date"))
        IN  /\ \A i \in 1..Len(forecast_df.rows) :
                  forecast_df.rows[i].Type \in {"Actual", "Forecast"}
            /\ Len(actual) = Len(daily_data.series)
            /\ \A i \in 1..Len(actual) :
                  /\ actual[i].Date = daily_data.series[i].Date
                  /\ actual[i].Volume = daily_data.series[i].Volume
            /\ {actual[i].Date : i \in 1..Len(actual)} = CalendarDays(df.rows)
            /\ Len(actual) = Cardinality(CalendarDays(df.rows))
            /\ Len(fc) = periods
            /\ \A k \in 1..Len(fc) : fc[k].Date = last + k
            /\ {actual[i].Date : i \in 1..Len(actual)}
                  \cap {fc[k].Date : k \in 1..Len(fc)} = {}

C10_Witness ==
    /\ pc = "returned"
    /\ forecast_df # None
    /\ periods = 2
    /\ Cardinality(Keys(df.rows, "Date")) = 2
    /\ Len(forecast_df.rows) = 33

-----------------------------------------------------------------------------
(* Properties of generate_recommendations *)

Called == pc \in {"returned", "raised"}

\* the observations of one kind in the returned list
Observations(kind) ==
    IF recommendations = None THEN <<>>
    ELSE SelectSeq(recommendations.list, LAMBDA o : o.kind = kind)

ProductNames(lines) == [i \in 1..Len(lines) |-> lines[i].product]

VolumeOf(p) == GroupSum(df.rows, "Product", p, "Volume")

RevenueOf(p) == GroupSum(df.rows, "Product", p, "Revenue")

\* seq lists the first three (all, when there are fewer) of a ranking of the
\* table's products by val, descending
TopThreeBy(seq, val(_)) ==
    LET all == Keys(df.rows, "Product")
        in  == {seq[i] : i \in 1..Len(seq)}
    IN  /\ Len(seq) = (IF Cardinality(all) < 3 THEN Cardinality(all) ELSE 3)
        /\ in \subseteq all
        /\ Cardinality(in) = Len(seq)
        /\ \A i, j \in 1..Len(seq) : i < j => val(seq[i]) >= val(seq[j])
        /\ \A p \in all \ in : \A q \in in : val(q) >= val(p)

ExampleVolumes ==
    /\ Keys(df.rows, "Product") = {"A", "B", "C"}
    /\ VolumeOf("A") = 100 /\ VolumeOf("B") = 50 /\ VolumeOf("C") = 200

EqualPrices == Cardinality(Keys(df.rows, "Price")) = 1

\* C3 as stated: the products are ranked by total sales volume, descending,
\* and the first three of the ranking are emitted as the top-3; for A (100
\* units), B (50) and C (200) the emitted order is C, A, B whatever the prices.
C3_TopByVolume ==
    (Called /\ Len(Observations("products")) > 0) =>
        LET top == ProductNames(Observations("products")[1].top)
        IN  /\ TopThreeBy(top, VolumeOf)
            /\ ExampleVolumes => top = <<"C", "A", "B">>

\* C3, amended: the products are ranked by total revenue (volume times unit
\* price, summed), descending, and the first three of the ranking are emitted
\* as the top-3; for A (100 units), B (50) and C (200) at one common unit
\* price the emitted order is C, A, B.
C3_TopByRevenue ==
    (Called /\ Len(Observations("products")) > 0) =>
        LET top == ProductNames(Observations("products")[1].top)
        IN  /\ TopThreeBy(top, RevenueOf)
            /\ (ExampleVolumes /\ EqualPrices) => top = <<"C", "A", "B">>

C3_Witness ==
    /\ pc = "returned"
    /\ Cardinality(Keys(df.rows, "Product")) = 4
    /\ Len(Observations("products")) = 1
    /\ ProductNames(Observations("products")[1].top) = <<"B", "C", "A">>
    /\ VolumeOf("A") = 100 /\ VolumeOf("B") = 50 /\ VolumeOf("C") = 200
    /\ VolumeOf("D") = 50 /\ RevenueOf("D") = 50

\* C4 as stated: for an empty table and for a table of exactly one row the
\* function raises nothing and returns the list holding only the fallback.
C4_FallbackOnTinyTables ==
    (Called /\ df.cols = LoadedCols /\ Cardinality(df.rows) <= 1) =>
        /\ raised = None
        /\ recommendations = [list |-> <<Fallback>>]

\* C4, amended: for an empty table the function raises nothing and returns the
\* list holding only the fallback; for a table of exactly one row it raises
\* nothing and returns, instead of the fallback, the product observation
\* naming the row's product, followed by the lost-revenue observation when the
\* row's volume is zero.
C4_TinyTables ==
    (Called /\ df.cols = LoadedCols) =>
        /\ df.rows = {} => /\ raised = None
                           /\ recommendations = [list |-> <<Fallback>>]
        /\ Cardinality(df.rows) = 1 =>
              LET r == CHOOSE r \in df.rows : TRUE
              IN  /\ raised = None
                  /\ recommendations # None
                  /\ Len(recommendations.list) = (IF r.Volume = 0 THEN 2 ELSE 1)
                  /\ recommendations.list[1].kind = "products"
                  /\ ProductNames(recommendations.list[1].top) = <<r.Product>>
                  /\ r.Volume = 0 => recommendations.list[2].kind = "lost_revenue"

C4_Witness ==
    /\ pc = "returned"
    /\ df.cols = LoadedCols
    /\ Cardinality(df.rows) = 1
    /\ Len(recommendations.list) = 2
    /\ recommendations.list[2] = [kind |-> "lost_revenue", days |-> 1]

SeasonalityWarning == [call |-> "st.warning", what |-> "seasonality_error"]

\* the seasonality check fails: a column it reads is missing, or the daily
\* series has fewer than two periods of observations
SeasonalityFails ==
    \/ ~HasCols(df, {"Date", "Volume"})
    \/ Cardinality(Keys(df.rows, "Date")) < 14

\* C6 as stated: an error raised inside a recommendation check is never
\* surfaced: the function emits no warning or other message about it.
C6_NoFailureSurfaced ==
    Called => screen = <<>>

\* C6, amended: an error raised inside the monthly-trend check or the
\* price-elasticity check is never surfaced; an error raised inside the
\* seasonality check is shown to the user as one st.warning.
C6_OnlySeasonalitySurfaced ==
    Called =>
        /\ screen = (IF SeasonalityFails THEN <<SeasonalityWarning>> ELSE <<>>)
        /\ \A i \in 1..Len(check_status) :
              /\ check_status[i] = "swallowed" => i \in {5, 6}
              /\ check_status[i] = "warned" => i = 1

C6_Witness ==
    /\ pc = "returned"
    /\ ~SeasonalityFails
    /\ check_status[5] = "swallowed"
    /\ screen = <<>>

-----------------------------------------------------------------------------
(* Properties of the script *)

Shown(call) == SelectSeq(screen, LAMBDA e : e.call = call)

MissingOf(file) == {c \in RequiredSet : c \notin file.cols}

\* C7: when the uploaded table lacks any of the six required columns,
\* load_and_analyze_data returns an error message naming every missing column
\* together with no dataframe, and the script then shows that error and
\* performs no KPI computation, filtering, forecasting or recommendation step;
\* extra columns never cause this error.
C7_MissingColumnsHalt ==
    (uploaded_file # None /\ pc \notin {"upload", "load"} /\ uploaded_file.readable) =>
        /\ MissingOf(uploaded_file) # {} =>
              /\ error_msg # None
              /\ error_msg.kind = "missing_columns"
              /\ {error_msg.columns[i] : i \in 1..Len(error_msg.columns)}
                    = MissingOf(uploaded_file)
              /\ df = None
              /\ pc \in {"loaded", "done"}
              /\ pc = "done" => screen = <<[call |-> "st.error", what |-> error_msg]>>
              /\ Shown("metrics") = <<>>
              /\ filtered_df = None /\ forecast_df = None /\ forecast_error = None
              /\ recommendations = None
        /\ MissingOf(uploaded_file) = {} =>
              (error_msg = None \/ error_msg.kind # "missing_columns")

C7_Witness ==
    /\ pc = "done"
    /\ uploaded_file # None
    /\ uploaded_file.cols = {"Date", "Product", "Price", "Customer", "Extra"}
    /\ error_msg = [kind |-> "missing_columns", columns |-> <<"Volume", "Location">>]
    /\ screen = <<[call |-> "st.error", what |-> error_msg]>>

InRange(r) ==
    /\ Len(date_range.value) >= 1 => r.Date >= date_range.value[1]
    /\ Len(date_range.value) = 2 => r.Date <= date_range.value[2]

\* C8 as stated: every row that feeds the forecast and the recommendations
\* lies inside the selected date range and has a product and a location that
\* are among the selected ones, for every state of the three filter widgets
\* (a date input that holds only one date included).
C8_RowsWithinSelection ==
    filtered_df # None =>
        \A r \in filtered_df.rows :
            /\ InRange(r)
            /\ r.Product \in products.value
            /\ r.Location \in locations.value

\* C8, amended: every row that feeds the forecast and the recommendations has
\* a product and a location that are among the selected ones, and lies inside
\* the selected date range when the date input holds two dates; when it holds
\* fewer than two dates no date restriction is applied, so the rows of every
\* date feed them.
C8_RowsFiltered ==
    filtered_df # None =>
        /\ filtered_df.rows =
              {r \in df.rows :
                  /\ r.Product \in products.value
                  /\ r.Location \in locations.value
                  /\ Len(date_range.value) = 2 =>
                        (r.Date >= date_range.value[1] /\ r.Date <= date_range.value[2])}
        /\ daily_data # None => Contiguous(daily_data.series, filtered_df.rows)
        /\ daily_sales # None => daily_sales.series = GroupByDateSum(filtered_df.rows)

C8_Witness ==
    /\ pc = "export"
    /\ date_range.value = <<2>>
    /\ \E r \in filtered_df.rows : r.Date = 1
    /\ \E r \in df.rows : r.Location \notin locations.value
    /\ filtered_df.rows # df.rows

CsvOffered == Len(Shown("download_button")) > 0

\* C9: when make_forecast reports an error, the script shows it as a warning
\* and still goes on to generate and display the recommendations and to offer
\* the CSV export in the same run; a forecast error never stops the rest of
\* the dashboard.
C9_ForecastErrorContinues ==
    forecast_error # None =>
        /\ Shown("st.warning") # <<>>
        /\ Shown("st.warning")[1] = [call |-> "st.warning", what |-> forecast_error]
        /\ pc \in {"recommend", "export", "pdf", "done", "crashed"}
        /\ pc = "recommend" => ENABLED Recommend
        /\ pc = "export" => ENABLED ExportCsv
        /\ pc # "recommend" =>
              /\ recommendations # None
              /\ Len(Shown("st.success")) = Len(recommendations.list)
        /\ pc \notin {"recommend", "export"} => CsvOffered

C9_Witness ==
    /\ pc = "done"
    /\ forecast_error = [kind |-> "min_30_days"]
    /\ Cardinality(filtered_df.rows) = 2
    /\ CsvOffered
    /\ Len(Shown("st.success")) > 0

-----------------------------------------------------------------------------
(* Revenue column and total-revenue KPI *)

RECURSIVE SumOfProducts(_)
SumOfProducts(rows) ==
    IF rows = {} THEN 0
    ELSE LET r == CHOOSE x \in rows : TRUE
         IN  r.Volume * r.Price + SumOfProducts(rows \ {r})

FileColumns(r) ==
    [Date |-> r.Date, Volume |-> r.Volume, Product |-> r.Product,
     Location |-> r.Location, Price |-> r.Price, Customer |-> r.Customer]

\* C11: after a successful load the loaded table holds the file's rows, the
\* revenue of every row is its sales volume times its unit price, and the
\* total-revenue KPI the script shows is the sum of the rows' revenues
C11_RevenueAndTotal ==
    (pc \notin {"upload", "load"} /\ error_msg = None /\ df # None) =>
        /\ {FileColumns(r) : r \in df.rows} = uploaded_file.rows
        /\ \A r \in df.rows : r.Revenue = r.Volume * r.Price
        /\ pc # "loaded" =>
              /\ Len(Shown("metrics")) = 1
              /\ Shown("metrics")[1].total_revenue = SumOfProducts(uploaded_file.rows)
              /\ Shown("metrics")[1].total_revenue = SumCol(df.rows, "Revenue")

C11_Witness ==
    /\ error_msg = None /\ df # None
    /\ Cardinality(df.rows) = 2
    /\ \E r \in df.rows : r.Volume = 4 /\ r.Price = 5 /\ r.Revenue = 20
    /\ \E r \in df.rows : r.Volume = 4 /\ r.Price = 2 /\ r.Revenue = 8
    /\ Len(Shown("metrics")) = 1
    /\ Shown("metrics")[1].total_revenue = 28

-----------------------------------------------------------------------------
(* Monthly trend: direction label and advice *)

\* C12: in every trend observation the label says decline exactly when the
\* advice is to increase marketing effort, and growth exactly when the advice
\* is to keep the successful strategy
C12_TrendAgreesWithAdvice ==
    Called =>
        \A i \in 1..Len(Observations("trend")) :
            LET o == Observations("trend")[i]
            IN  /\ o.trend = "decline" <=> o.advice = "increase_marketing"
                /\ o.trend = "growth" <=> o.advice = "keep_strategy"

-----------------------------------------------------------------------------
(* Product observation: top three and outsiders *)

Range(seq) == {seq[i] : i \in 1..Len(seq)}

\* C13: in every product observation no product is both among the top three
\* and among the outsiders
C13_TopAndOutsidersDisjoint ==
    Called =>
        \A i \in 1..Len(Observations("products")) :
            LET o == Observations("products")[i]
            IN  Range(ProductNames(o.top)) \cap Range(ProductNames(o.bottom)) = {}

====
